---- MODULE Spec2Model ----
(***************************************************************************)
(* Model of narrowing_cast_plugin.cc: the recursive walk of a function     *)
(* body (traverse_and_check_ast), the peeling of conversion wrappers       *)
(* (get_original_type), the resolution of a callee                         *)
(* (get_fndecl_from_callee_expr) and the classification of a conversion    *)
(* (check_narrowing_conversion).                                           *)
(*                                                                         *)
(* A tree is kept as a heap: a sequence of nodes, a node named by its      *)
(* index, 0 standing for NULL_TREE.  The recursion of the walk is kept as  *)
(* the stack of the calls still to be made.                                *)
(***************************************************************************)
EXTENDS Integers, Sequences, FiniteSets, TLC

VARIABLES ast, data, stack, visited, diags, original_type, pc

vars == <<ast, data, stack, visited, diags, original_type, pc>>

(***************************************************************************)
(* Bounds of the model.                                                    *)
(***************************************************************************)
MaxWrap == 3
MaxStmts == 2
MaxArgs == 2

NULL_TREE == 0

(***************************************************************************)
(* Types.  A type carries its tree code, its precision and its qualifiers; *)
(* the main variant of a type is the type without qualifiers.              *)
(***************************************************************************)
NullType == [code |-> "NULL_TREE", prec |-> 0, quals |-> ""]
error_mark_node == [code |-> "ERROR_MARK", prec |-> 0, quals |-> ""]
void_type_node == [code |-> "VOID_TYPE", prec |-> 0, quals |-> ""]

Widths == {16, 32, 64, 128}
TypeCodes == {"INTEGER_TYPE", "REAL_TYPE", "POINTER_TYPE"}
AllTypes ==
    [code : TypeCodes, prec : Widths, quals : {"", "const"}]
        \cup {NullType, error_mark_node}

Ty(c, p) == [code |-> c, prec |-> p, quals |-> ""]
I64 == Ty("INTEGER_TYPE", 64)
I32 == Ty("INTEGER_TYPE", 32)
F64 == Ty("REAL_TYPE", 64)
F32 == Ty("REAL_TYPE", 32)
P64 == Ty("POINTER_TYPE", 64)

TYPE_MAIN_VARIANT(type) == [type EXCEPT !.quals = ""]
TYPE_PRECISION(type) == type.prec

is_numeric_type(type) ==
    IF type = NullType THEN FALSE
    ELSE TYPE_MAIN_VARIANT(type).code \in {"INTEGER_TYPE", "REAL_TYPE"}

(***************************************************************************)
(* Nodes.  ops are the operands (TREE_OPERAND), each a heap index or       *)
(* NULL_TREE; a declaration keeps DECL_INITIAL as its first operand and    *)
(* the next declaration of its block in chain; a FUNCTION_DECL keeps the   *)
(* TYPE_ARG_TYPES list of its type in parms.                               *)
(***************************************************************************)
Node(c, t, o) == [code |-> c, type |-> t, ops |-> o, chain |-> 0, parms |-> <<>>]

TREE_CODE(h, n) == h[n].code
TREE_TYPE(h, n) == h[n].type
TREE_OPERAND_LENGTH(h, n) == Len(h[n].ops)
TREE_OPERAND(h, n, i) == IF i + 1 <= Len(h[n].ops) THEN h[n].ops[i + 1] ELSE NULL_TREE
DECL_INITIAL(h, n) == TREE_OPERAND(h, n, 0)

WrapperCodes ==
    {"NOP_EXPR", "CONVERT_EXPR", "VIEW_CONVERT_EXPR", "FLOAT_EXPR", "FIX_TRUNC_EXPR"}

(***************************************************************************)
(* get_original_type: the loop that peels the conversion wrappers.         *)
(***************************************************************************)
RECURSIVE Peel(_, _)
Peel(h, cur) ==
    IF cur # NULL_TREE /\ TREE_CODE(h, cur) \in WrapperCodes
    THEN Peel(h, TREE_OPERAND(h, cur, 0))
    ELSE cur

\* A loop that peels one layer only.
PeelOnce(h, cur) ==
    IF cur # NULL_TREE /\ TREE_CODE(h, cur) \in WrapperCodes
    THEN TREE_OPERAND(h, cur, 0)
    ELSE cur

PeelLoop(h, cur) == Peel(h, cur)

get_original_type(h, expr) ==
    IF expr = NULL_TREE THEN NullType
    ELSE LET start == IF TREE_CODE(h, expr) = "INIT_EXPR"
                      THEN TREE_OPERAND(h, expr, 1)
                      ELSE expr
             current_expr == PeelLoop(h, start)
         IN  IF current_expr # NULL_TREE
             THEN TREE_TYPE(h, current_expr)
             ELSE TREE_TYPE(h, expr)

(***************************************************************************)
(* check_narrowing_conversion: the three lossy patterns, and the           *)
(* diagnostics the call emits (none or one).                               *)
(***************************************************************************)
\* The classification without its two cross-kind patterns.
LossyNoCross(from_type, to_type) ==
    LET from_code == TYPE_MAIN_VARIANT(from_type).code
        to_code == TYPE_MAIN_VARIANT(to_type).code
    IN  TYPE_PRECISION(from_type) = 64 /\ TYPE_PRECISION(to_type) = 32
            /\ from_code = to_code

Lossy(from_type, to_type) ==
    LET from_code == TYPE_MAIN_VARIANT(from_type).code
        to_code == TYPE_MAIN_VARIANT(to_type).code
        from_precision == TYPE_PRECISION(from_type)
        to_precision == TYPE_PRECISION(to_type)
        standard_narrowing ==
            from_precision = 64 /\ to_precision = 32 /\ from_code = to_code
        int64_to_float ==
            from_code = "INTEGER_TYPE" /\ from_precision = 64
                /\ to_code = "REAL_TYPE" /\ to_precision = 32
        double_to_int32 ==
            from_code = "REAL_TYPE" /\ from_precision = 64
                /\ to_code = "INTEGER_TYPE" /\ to_precision = 32
    IN  standard_narrowing \/ int64_to_float \/ double_to_int32

Diag(loc, from_t, to_t, context, k) ==
    [at |-> loc, from |-> from_t, to |-> to_t, context |-> context, arg |-> k,
     visit |-> 0]

\* Whether the call warns, once from_type is known (the guard on null and
\* error types, the test on numeric types, the three patterns).
Classify(ft, to_type) ==
    IF to_type = NullType \/ ft = NullType
        \/ to_type = error_mark_node \/ ft = error_mark_node
    THEN FALSE
    ELSE is_numeric_type(to_type) /\ is_numeric_type(ft) /\ Lossy(ft, to_type)

\* get_original_type without the peeling: the type of the expression itself.
TypeOfExpr(h, expr) ==
    IF expr = NULL_TREE THEN NullType ELSE TREE_TYPE(h, expr)

from_type_of(h, from_expr) == get_original_type(h, from_expr)

check_narrowing_conversion(h, loc, to_type, from_expr, context, k) ==
    LET ft == from_type_of(h, from_expr)
    IN  IF Classify(ft, to_type)
        THEN <<Diag(loc, ft, to_type, context, k)>>
        ELSE <<>>

(***************************************************************************)
(* get_fndecl_from_callee_expr: unwraps ADDR_EXPR, NOP_EXPR and            *)
(* CONVERT_EXPR down to a FUNCTION_DECL, NULL_TREE when there is none.     *)
(***************************************************************************)
\* An unwrapping that also looks through an indirection.
RECURSIVE ResolveThroughIndirect(_, _)
ResolveThroughIndirect(h, callee) ==
    IF callee = NULL_TREE THEN NULL_TREE
    ELSE IF TREE_CODE(h, callee) = "FUNCTION_DECL" THEN callee
    ELSE IF TREE_CODE(h, callee)
                \in {"ADDR_EXPR", "NOP_EXPR", "CONVERT_EXPR", "INDIRECT_REF"}
         THEN ResolveThroughIndirect(h, TREE_OPERAND(h, callee, 0))
         ELSE NULL_TREE

RECURSIVE get_fndecl_from_callee_expr(_, _)
get_fndecl_from_callee_expr(h, callee) ==
    IF callee = NULL_TREE THEN NULL_TREE
    ELSE IF TREE_CODE(h, callee) = "FUNCTION_DECL" THEN callee
    ELSE IF TREE_CODE(h, callee) \in {"ADDR_EXPR", "NOP_EXPR", "CONVERT_EXPR"}
         THEN get_fndecl_from_callee_expr(h, TREE_OPERAND(h, callee, 0))
         ELSE NULL_TREE

(***************************************************************************)
(* A CALL_EXPR keeps its callee as operand 0 and its arguments after it    *)
(* (the operand count and the static chain of GCC's layout are left out:   *)
(* the one is a constant leaf, the other absent).                          *)
(***************************************************************************)
CALL_EXPR_FN(h, n) == TREE_OPERAND(h, n, 0)
CALL_EXPR_ARGS(h, n) == Tail(h[n].ops)
TYPE_ARG_TYPES(h, fn_decl) == h[fn_decl].parms

(***************************************************************************)
(* The argument loop of the CALL_EXPR case.  FOR_EACH_CALL_EXPR_ARG ends   *)
(* at the first absent argument; arg_types is what is left of the          *)
(* parameter list, k the index of the argument.                            *)
(***************************************************************************)
\* An argument loop that never advances in the parameter list.
RECURSIVE ArgLoopStuck(_, _, _, _, _)
ArgLoopStuck(h, loc, args, arg_types, k) ==
    IF args = <<>> \/ Head(args) = NULL_TREE THEN <<>>
    ELSE IF arg_types = <<>> \/ Head(arg_types) = void_type_node THEN <<>>
    ELSE LET param_type == Head(arg_types)
             here == IF param_type # NullType
                     THEN check_narrowing_conversion(h, loc, param_type, Head(args),
                                                     "function argument", k)
                     ELSE <<>>
         IN  here \o ArgLoopStuck(h, loc, Tail(args), arg_types, k + 1)

RECURSIVE ArgLoop(_, _, _, _, _)
ArgLoop(h, loc, args, arg_types, k) ==
    IF args = <<>> \/ Head(args) = NULL_TREE THEN <<>>
    ELSE IF arg_types = <<>> \/ Head(arg_types) = void_type_node THEN <<>>
    ELSE LET param_type == Head(arg_types)
             here == IF param_type # NullType
                     THEN check_narrowing_conversion(h, loc, param_type, Head(args),
                                                     "function argument", k)
                     ELSE <<>>
         IN  here \o ArgLoop(h, loc, Tail(args), Tail(arg_types), k + 1)

(***************************************************************************)
(* The first switch of traverse_and_check_ast: the checkpoint at a node.   *)
(* An outcome is the diagnostics emitted, or a fault.  TREE_TYPE(lhs) of   *)
(* a MODIFY_EXPR reads through lhs unchecked: with lhs absent the read is  *)
(* undefined, and either faults or yields some type.                       *)
(***************************************************************************)
Outcome(f, ds) == [fault |-> f, diags |-> ds]

WildTypes == {NullType, I32, I64}

Checkpoint(h, node, d) ==
    LET code == TREE_CODE(h, node)
    IN  CASE code = "VAR_DECL" ->
               LET initializer == DECL_INITIAL(h, node)
               IN  IF initializer # NULL_TREE
                   THEN {Outcome(FALSE,
                            check_narrowing_conversion(h, node, TREE_TYPE(h, node),
                                initializer, "variable initialization", 0))}
                   ELSE {Outcome(FALSE, <<>>)}
          [] code = "MODIFY_EXPR" ->
               LET lhs == TREE_OPERAND(h, node, 0)
                   rhs == TREE_OPERAND(h, node, 1)
               IN  IF lhs # NULL_TREE
                   THEN {Outcome(FALSE,
                            check_narrowing_conversion(h, node, TREE_TYPE(h, lhs),
                                rhs, "assignment", 0))}
                   ELSE {Outcome(TRUE, <<>>)}
                        \cup {Outcome(FALSE,
                                check_narrowing_conversion(h, node, t, rhs,
                                    "assignment", 0)) : t \in WildTypes}
          [] code = "CALL_EXPR" ->
               LET fn_decl == get_fndecl_from_callee_expr(h, CALL_EXPR_FN(h, node))
               IN  IF fn_decl = NULL_TREE
                   THEN {Outcome(FALSE, <<>>)}
                   ELSE {Outcome(FALSE,
                            ArgLoop(h, node, CALL_EXPR_ARGS(h, node),
                                    TYPE_ARG_TYPES(h, fn_decl), 0))}
          [] code = "RETURN_EXPR" ->
               IF TREE_OPERAND(h, node, 0) # NULL_TREE
               THEN {Outcome(FALSE,
                        check_narrowing_conversion(h, node, d.function_return_type,
                            TREE_OPERAND(h, node, 0), "return value", 0))}
               ELSE {Outcome(FALSE, <<>>)}
          [] OTHER -> {Outcome(FALSE, <<>>)}

(***************************************************************************)
(* The second switch: the recursive calls a node makes, in order.  A call  *)
(* the code guards (if (x) traverse(x)) is left out when x is absent; an   *)
(* unguarded one is made with NULL_TREE and returns at once.               *)
(***************************************************************************)
ExprCodes ==
    {"PLUS_EXPR", "MINUS_EXPR", "MULT_EXPR", "TRUNC_DIV_EXPR", "CEIL_DIV_EXPR",
     "FLOOR_DIV_EXPR", "ROUND_DIV_EXPR", "TRUNC_MOD_EXPR", "CEIL_MOD_EXPR",
     "FLOOR_MOD_EXPR", "ROUND_MOD_EXPR", "RDIV_EXPR", "EXACT_DIV_EXPR",
     "ADDR_EXPR", "FDESC_EXPR", "BIT_IOR_EXPR", "BIT_XOR_EXPR", "BIT_AND_EXPR",
     "BIT_NOT_EXPR", "TRUTH_ANDIF_EXPR", "TRUTH_ORIF_EXPR", "TRUTH_AND_EXPR",
     "TRUTH_OR_EXPR", "TRUTH_XOR_EXPR", "TRUTH_NOT_EXPR", "LT_EXPR", "LE_EXPR",
     "GT_EXPR", "GE_EXPR", "EQ_EXPR", "NE_EXPR", "UNORDERED_EXPR", "ORDERED_EXPR",
     "UNLT_EXPR", "UNLE_EXPR", "UNGT_EXPR", "UNGE_EXPR", "UNEQ_EXPR", "LTGT_EXPR",
     "INDIRECT_REF", "COMPOUND_EXPR", "MODIFY_EXPR", "INIT_EXPR", "TARGET_EXPR",
     "COND_EXPR", "VEC_COND_EXPR", "VEC_PERM_EXPR", "CALL_EXPR",
     "WITH_CLEANUP_EXPR", "CLEANUP_POINT_EXPR", "CONSTRUCTOR",
     "COMPOUND_LITERAL_EXPR", "SAVE_EXPR", "REALIGN_LOAD_EXPR", "CONVERT_EXPR",
     "NOP_EXPR", "VIEW_CONVERT_EXPR", "NON_LVALUE_EXPR", "ABS_EXPR", "LSHIFT_EXPR",
     "RSHIFT_EXPR", "LROTATE_EXPR", "RROTATE_EXPR", "FLOAT_EXPR", "FIX_TRUNC_EXPR"}

(***************************************************************************)
(* TREE_CODE_CLASS of the codes the second switch does not list, as GCC's  *)
(* tree.def gives it: a return is a statement, a negation a unary          *)
(* expression, a post-increment an expression.                             *)
(***************************************************************************)
TREE_CODE_CLASS(code) ==
    CASE code \in {"POSTINCREMENT_EXPR", "PREDECREMENT_EXPR"} -> "tcc_expression"
      [] code \in {"RETURN_EXPR", "GOTO_EXPR"} -> "tcc_statement"
      [] code \in {"NEGATE_EXPR"} -> "tcc_unary"
      [] code \in {"COMPONENT_REF"} -> "tcc_reference"
      [] code \in {"INTEGER_CST", "REAL_CST"} -> "tcc_constant"
      [] code \in {"FUNCTION_DECL", "RESULT_DECL"} -> "tcc_declaration"
      [] OTHER -> "tcc_exceptional"

Present(s) == SelectSeq(s, LAMBDA x : x # NULL_TREE)

Operands(h, node) ==
    Present([i \in 1..TREE_OPERAND_LENGTH(h, node) |-> TREE_OPERAND(h, node, i - 1)])

Descend(h, node) ==
    LET code == TREE_CODE(h, node)
        op(i) == TREE_OPERAND(h, node, i)
    IN  CASE code \in ExprCodes -> Operands(h, node)
          [] code = "BIND_EXPR" -> Present(<<op(0), op(1)>>)
          [] code = "STATEMENT_LIST" -> h[node].ops
          [] code = "EXPR_STMT" -> <<op(0)>>
          [] code = "IF_STMT" -> <<op(0), op(1)>> \o Present(<<op(2)>>)
          [] code = "FOR_STMT" -> <<op(0), op(1), op(2), op(3)>>
          [] code = "WHILE_STMT" -> <<op(0), op(1)>>
          [] code = "DO_STMT" -> <<op(1), op(0)>>
          [] code = "SWITCH_STMT" -> <<op(0), op(1)>>
          [] code = "CASE_LABEL_EXPR" -> <<op(0)>> \o Present(<<op(1)>>)
          [] code = "DECL_EXPR" -> <<op(0)>>
          [] code \in {"VAR_DECL", "PARM_DECL", "FIELD_DECL"} ->
               Present(<<DECL_INITIAL(h, node)>>)
          [] OTHER ->
               IF TREE_CODE_CLASS(code) = "tcc_expression"
               THEN Operands(h, node)
               ELSE <<>>

Reversed(s) == [i \in 1..Len(s) |-> s[Len(s) + 1 - i]]

\* A descent that takes the children last to first.
DescendBackwards(h, node) == Reversed(Descend(h, node))

Children(h, node) == Descend(h, node)

Stamp(ds, v) == [i \in 1..Len(ds) |-> [ds[i] EXCEPT !.visit = v]]

(***************************************************************************)
(* The walk.                                                               *)
(***************************************************************************)
\* pre_genericize_callback: a function without a body is left alone.
pre_genericize_callback ==
    /\ pc = "idle"
    /\ IF ast = <<>>
       THEN pc' = "returned" /\ stack' = stack
       ELSE pc' = "walking" /\ stack' = <<1>>
    /\ UNCHANGED <<ast, data, visited, diags, original_type>>

\* traverse_and_check_ast(NULL_TREE, data) returns at once.
TraverseNull ==
    /\ pc = "walking"
    /\ stack # <<>>
    /\ Head(stack) = NULL_TREE
    /\ stack' = Tail(stack)
    /\ UNCHANGED <<ast, data, visited, diags, original_type, pc>>

\* traverse_and_check_ast(node, data): the checkpoint, then the children.
TraverseNode ==
    /\ pc = "walking"
    /\ stack # <<>>
    /\ Head(stack) # NULL_TREE
    /\ LET node == Head(stack)
       IN  \E out \in Checkpoint(ast, node, data) :
               /\ ~out.fault
               /\ visited' = Append(visited, node)
               /\ diags' = diags \o Stamp(out.diags, Len(visited) + 1)
               /\ stack' = Children(ast, node) \o Tail(stack)
    /\ UNCHANGED <<ast, data, original_type, pc>>

\* The undefined read of the MODIFY_EXPR case ends the process.
TraverseFault ==
    /\ pc = "walking"
    /\ stack # <<>>
    /\ Head(stack) # NULL_TREE
    /\ \E out \in Checkpoint(ast, Head(stack), data) : out.fault
    /\ visited' = Append(visited, Head(stack))
    /\ pc' = "fault"
    /\ UNCHANGED <<ast, data, stack, diags, original_type>>

\* The outermost call returns to pre_genericize_callback, which returns.
WalkReturn ==
    /\ pc = "walking"
    /\ stack = <<>>
    /\ pc' = "returned"
    /\ UNCHANGED <<ast, data, stack, visited, diags, original_type>>

Next ==
    \/ pre_genericize_callback
    \/ TraverseNull
    \/ TraverseNode
    \/ TraverseFault
    \/ WalkReturn

(***************************************************************************)
(* The trees the walk is run on.  A tree is written as a term (a node with *)
(* its children nested in it) and laid out in the heap by Flatten; REF k   *)
(* stands for a use of the k-th variable of the enclosing block, which is  *)
(* the VAR_DECL node itself, shared with the block's variable list.        *)
(***************************************************************************)
T(c, t, kids) == [code |-> c, type |-> t, kids |-> kids, ref |-> 0, parms |-> <<>>]
Nil == T("NULL_TREE", NullType, <<>>)
Ref(k) == [code |-> "REF", type |-> NullType, kids |-> <<>>, ref |-> k, parms |-> <<>>]
Fn(parms) ==
    [code |-> "FUNCTION_DECL", type |-> P64, kids |-> <<>>, ref |-> 0, parms |-> parms]

RECURSIVE Flatten(_, _, _), FlattenKids(_, _, _)
Flatten(t, base, env) ==
    IF t.code = "NULL_TREE" THEN [root |-> NULL_TREE, nodes |-> <<>>]
    ELSE IF t.code = "REF" THEN [root |-> env[t.ref], nodes |-> <<>>]
    ELSE LET ks == FlattenKids(t.kids, base + 1, env)
         IN  [root |-> base,
              nodes |-> <<[code |-> t.code, type |-> t.type, ops |-> ks.roots,
                           chain |-> 0, parms |-> t.parms]>> \o ks.nodes]

FlattenKids(kids, base, env) ==
    IF kids = <<>> THEN [roots |-> <<>>, nodes |-> <<>>]
    ELSE LET f == Flatten(Head(kids), base, env)
             r == FlattenKids(Tail(kids), base + Len(f.nodes), env)
         IN  [roots |-> <<f.root>> \o r.roots, nodes |-> f.nodes \o r.nodes]

\* The variables of a block, each laid out with its initializer; the
\* initializer of a variable may use the variables declared before it.
RECURSIVE FlattenVars(_, _, _)
FlattenVars(vs, base, env) ==
    IF vs = <<>> THEN [roots |-> <<>>, nodes |-> <<>>]
    ELSE LET f == Flatten(Head(vs), base, env)
             r == FlattenVars(Tail(vs), base + Len(f.nodes), Append(env, f.root))
         IN  [roots |-> <<f.root>> \o r.roots, nodes |-> f.nodes \o r.nodes]

\* DECL_CHAIN links the variables of the block.
Chained(nodes, roots, base) ==
    [i \in 1..Len(nodes) |->
        IF \E k \in 1..(Len(roots) - 1) : roots[k] = base + i - 1
        THEN LET k == CHOOSE k \in 1..(Len(roots) - 1) : roots[k] = base + i - 1
             IN  [nodes[i] EXCEPT !.chain = roots[k + 1]]
        ELSE nodes[i]]

\* A function body: BIND_EXPR <vars, body>, the body a STATEMENT_LIST.
BuildBody(vs, stmts) ==
    LET fv == FlattenVars(vs, 2, <<>>)
        fb == Flatten(T("STATEMENT_LIST", NullType, stmts), 2 + Len(fv.nodes), fv.roots)
        head == IF fv.roots = <<>> THEN NULL_TREE ELSE fv.roots[1]
    IN  <<Node("BIND_EXPR", NullType, <<head, fb.root>>)>>
            \o Chained(fv.nodes, fv.roots, 2) \o fb.nodes

(***************************************************************************)
(* Terms of the trees.                                                     *)
(***************************************************************************)
Cst(t) == T(IF t.code = "REAL_TYPE" THEN "REAL_CST" ELSE "INTEGER_CST", t, <<>>)
Nop(t, e) == T("NOP_EXPR", t, <<e>>)
Parm(t) == T("PARM_DECL", t, <<Nil>>)
Var(t, init) == T("VAR_DECL", t, <<init>>)
Modify(l, r) == T("MODIFY_EXPR", l.type, <<l, r>>)
ExprStmt(e) == T("EXPR_STMT", NullType, <<e>>)
Return(v) == T("RETURN_EXPR", NullType, <<v>>)
Addr(e) == T("ADDR_EXPR", P64, <<e>>)
Call(fn, args) == T("CALL_EXPR", NullType, <<fn>> \o args)
DeclStmt(k) == T("DECL_EXPR", NullType, <<Ref(k)>>)

LossyA == Modify(Parm(I32), Cst(I64))
SafeA == Modify(Parm(I64), Cst(I32))

\* Source expressions of a checkpoint: plain, cast, round trip, a wrapper
\* without operand, absent, of the error type.
SrcExprs ==
    {Cst(I64), Cst(I32), Nop(I32, Cst(I64)),
     Nop(I32, T("CONVERT_EXPR", I64, <<Cst(I32)>>)),
     T("FIX_TRUNC_EXPR", I32, <<Cst(F64)>>),
     Nop(I32, Nil), Nil, Cst(error_mark_node)}

Assigns ==
    {Modify(Parm(I32), r) : r \in SrcExprs}
        \cup {Modify(Parm(I64), Cst(I32)), Modify(Parm(I64), Cst(I64)),
              Modify(Parm(NullType), Cst(I64)),
              Modify(Nil, Cst(I64)), Modify(Nil, Nil)}

Returns ==
    {Return(v) : v \in {Nil, Cst(I64), Cst(I32), Nop(I32, Cst(I64)), LossyA,
                        T("INIT_EXPR", NullType,
                          <<T("RESULT_DECL", I32, <<>>), Cst(I64)>>)}}

\* Parameter lists (TYPE_ARG_TYPES): a prototype ends with void_type_node, a
\* variadic one ends without it.
ParmLists ==
    {<<I32, void_type_node>>, <<I32, I32, void_type_node>>, <<I32>>,
     <<void_type_node>>, <<NullType, I32, void_type_node>>}

RECURSIVE SeqsUpTo(_, _)
SeqsUpTo(S, n) ==
    IF n = 0 THEN {<<>>}
    ELSE {<<>>} \cup {<<x>> \o t : x \in S, t \in SeqsUpTo(S, n - 1)}

ArgLists == SeqsUpTo({Cst(I64), Cst(I32)}, MaxArgs)

Calls ==
    {Call(Addr(Fn(p)), a) : p \in ParmLists, a \in ArgLists}
        \cup {Call(Nop(P64, Addr(Fn(<<I32, I32, void_type_node>>))), a) : a \in ArgLists}
        \cup {Call(T("INDIRECT_REF", P64, <<Addr(Fn(<<I32, I32, void_type_node>>))>>), a) :
                a \in ArgLists}
        \cup {Call(Addr(Parm(P64)), <<Cst(I64)>>), Call(Nil, <<Cst(I64)>>),
              Call(T("INDIRECT_REF", P64, <<Parm(P64)>>), <<Cst(I64)>>),
              Call(Addr(Fn(<<I32, I32, void_type_node>>)), <<Nil, Cst(I64)>>),
              Call(Addr(Fn(<<I32, I32, void_type_node>>)), <<LossyA, Cst(I64)>>)}

Slot == {Nil, LossyA}

Controls ==
    {T("FOR_STMT", NullType, <<a, b, c, d>>) : a \in Slot, b \in Slot, c \in Slot, d \in Slot}
        \cup {T("IF_STMT", NullType, <<a, b, c>>) : a \in Slot, b \in Slot, c \in Slot}
        \cup {T("WHILE_STMT", NullType, <<a, b>>) : a \in Slot, b \in Slot}
        \cup {T("DO_STMT", NullType, <<a, b>>) : a \in Slot, b \in Slot}
        \cup {T("SWITCH_STMT", NullType, <<a, T("CASE_LABEL_EXPR", NullType, <<b, c>>)>>) :
                a \in Slot, b \in Slot, c \in Slot}

Others ==
    {T("POSTINCREMENT_EXPR", I32, <<LossyA>>), T("NEGATE_EXPR", I32, <<LossyA>>),
     T("COMPONENT_REF", I32, <<LossyA, Nil>>), T("GOTO_EXPR", NullType, <<Nil>>),
     T("PLUS_EXPR", I32, <<LossyA, SafeA>>), T("COND_EXPR", I32, <<Nil, LossyA, LossyA>>),
     T("CLEANUP_POINT_EXPR", NullType, <<ExprStmt(LossyA)>>),
     T("BIND_EXPR", NullType, <<Nil, ExprStmt(LossyA)>>),
     T("BIND_EXPR", NullType, <<Nil, Nil>>),
     ExprStmt(Nil)}

Stmts ==
    {ExprStmt(e) : e \in Assigns \cup Calls} \cup Returns \cup Controls \cup Others

\* The statements that follow the first one of a list.
FollowStmts ==
    {ExprStmt(LossyA), Return(Cst(I64)), Nil,
     T("IF_STMT", NullType, <<Nil, ExprStmt(LossyA), Nil>>)}

StmtLists ==
    {<<>>} \cup {<<s>> \o t : s \in Stmts, t \in SeqsUpTo(FollowStmts, MaxStmts - 1)}

\* The variables of the body's block.
VarLists ==
    {<<Var(I32, Cst(I64))>>, <<Var(I64, Cst(I32))>>, <<Var(I32, Nil)>>,
     <<Var(I32, ExprStmt(Call(Addr(Fn(<<I32, void_type_node>>)), <<Cst(I64)>>)))>>,
     <<Var(I64, Cst(I32)), Var(I32, Nop(I32, Ref(1)))>>,
     <<Var(I32, Cst(I64)), Var(I32, Cst(I64))>>}

\* Statements that use the first variable of the block.
RefStmts ==
    {ExprStmt(Modify(Parm(I32), Ref(1))), ExprStmt(Modify(Ref(1), Cst(I64))),
     Return(Ref(1)), ExprStmt(LossyA), Return(Cst(I64))}

DeclStmts(vs, withDecls) ==
    IF withDecls THEN [k \in 1..Len(vs) |-> DeclStmt(k)] ELSE <<>>

RetTypes == {I32, I64, NullType}

WalkInputs ==
    {[ast |-> BuildBody(<<>>, l), ret |-> r] : l \in StmtLists, r \in RetTypes}
        \cup {[ast |-> BuildBody(vs, DeclStmts(vs, w) \o l), ret |-> I32] :
                vs \in VarLists, w \in BOOLEAN, l \in SeqsUpTo(RefStmts, MaxStmts)}
        \cup {[ast |-> <<>>, ret |-> I32]}

Init ==
    /\ \E in \in WalkInputs :
           /\ ast = in.ast
           /\ data = [function_return_type |-> in.ret]
    /\ stack = <<>>
    /\ visited = <<>>
    /\ diags = <<>>
    /\ original_type = NullType
    /\ pc = "idle"

Spec == Init /\ [][Next]_vars

\* The walk is one synchronous call: once started it runs to its end.
FairSpec == Spec /\ WF_vars(Next)

(***************************************************************************)
(* check_narrowing_conversion and get_original_type on their own: one call *)
(* on a source expression (node 1) and a destination type.                 *)
(***************************************************************************)
WrapKinds ==
    {<<c, I32>> : c \in WrapperCodes} \cup {<<"NOP_EXPR", I64>>, <<"FLOAT_EXPR", F32>>}

Innermost ==
    {Cst(I64), Cst(I32), Cst(F64), Nil, T("INIT_EXPR", NullType, <<Parm(I32), Cst(I64)>>),
     T("PLUS_EXPR", I64, <<Cst(I32), Cst(I32)>>)}

RECURSIVE Wrapped(_, _)
Wrapped(ws, e) ==
    IF ws = <<>> THEN e
    ELSE T(Head(ws)[1], Head(ws)[2], <<Wrapped(Tail(ws), e)>>)

Chains ==
    {Wrapped(ws, e) : ws \in SeqsUpTo(WrapKinds, MaxWrap), e \in Innermost}

CheckInputs ==
    {[ast |-> Flatten(Cst(f), 1, <<>>).nodes, to |-> t] : f \in AllTypes, t \in AllTypes}
        \cup {[ast |-> Flatten(c, 1, <<>>).nodes, to |-> t] :
                c \in Chains \ {Nil}, t \in {I32, I64, F32}}
        \cup {[ast |-> Flatten(T("INIT_EXPR", NullType, <<Parm(t), c>>), 1, <<>>).nodes,
               to |-> t] : c \in Chains, t \in {I32, I64}}

CheckInit ==
    /\ \E in \in CheckInputs :
           /\ ast = in.ast
           /\ data = [function_return_type |-> in.to]
    /\ stack = <<>>
    /\ visited = <<>>
    /\ diags = <<>>
    /\ original_type = NullType
    /\ pc = "idle"

CheckConversion ==
    /\ pc = "idle"
    /\ original_type' = get_original_type(ast, 1)
    /\ diags' = check_narrowing_conversion(ast, 1, data.function_return_type, 1,
                                           "conversion", 0)
    /\ pc' = "returned"
    /\ UNCHANGED <<ast, data, stack, visited>>

CheckNext == CheckConversion

CheckSpec == CheckInit /\ [][CheckNext]_vars

(***************************************************************************)
(* What the properties below speak of.                                     *)
(***************************************************************************)
Returned == pc = "returned"

NumericKind(t) == t.code \in {"INTEGER_TYPE", "REAL_TYPE"}

\* The table of section 8: numeric on both sides, 64 bits to 32 bits.
ExpectLossy(f, t) ==
    NumericKind(f) /\ NumericKind(t) /\ f.prec = 64 /\ t.prec = 32

IsWrapper(h, n) == n # NULL_TREE /\ h[n].code \in WrapperCodes

\* A chain of wrappers is laid out in consecutive nodes from s on: the
\* number of wrappers that lead it, and the node under the last of them
\* (NULL_TREE when the last wrapper has no operand).
LeadingWrappers(h, s) ==
    IF s = NULL_TREE THEN 0
    ELSE Cardinality({i \in s..Len(h) : \A j \in s..i : h[j].code \in WrapperCodes})

InnermostOf(h, s) ==
    LET n == LeadingWrappers(h, s)
    IN  IF n = 0 THEN s ELSE h[s + n - 1].ops[1]

RECURSIVE IsSubseq(_, _)
IsSubseq(a, b) ==
    IF a = <<>> THEN TRUE
    ELSE IF b = <<>> THEN FALSE
    ELSE IF Head(a) = Head(b) THEN IsSubseq(Tail(a), Tail(b))
    ELSE IsSubseq(a, Tail(b))

RECURSIVE VarChain(_, _)
VarChain(h, n) == IF n = NULL_TREE THEN <<>> ELSE <<n>> \o VarChain(h, h[n].chain)

\* Every child of a node, left to right: the variables of a block before
\* its body, the body of a do-loop before its condition, the operands of
\* anything else in their order.
AllChildren(h, n) ==
    CASE h[n].code = "BIND_EXPR" -> VarChain(h, h[n].ops[1]) \o Present(<<h[n].ops[2]>>)
      [] h[n].code = "DO_STMT" -> Present(<<h[n].ops[2], h[n].ops[1]>>)
      [] OTHER -> Present(h[n].ops)

\* The depth-first pre-order of the tree under n, a shared node once for
\* each of its places.
RECURSIVE PreOrder(_, _), PreOrderAll(_, _)
PreOrder(h, n) == <<n>> \o PreOrderAll(h, AllChildren(h, n))

PreOrderAll(h, ns) ==
    IF ns = <<>> THEN <<>> ELSE PreOrder(h, Head(ns)) \o PreOrderAll(h, Tail(ns))

Body == IF ast = <<>> THEN <<>> ELSE PreOrder(ast, 1)

Reachable == {Body[i] : i \in 1..Len(Body)}

Visits(n) == Cardinality({i \in 1..Len(visited) : visited[i] = n})

DiagsOfVisit(v) == SelectSeq(diags, LAMBDA d : d.visit = v)

\* A callee that unwrapping address-of and conversion wrappers leads to a
\* function.
RECURSIVE Resolvable(_, _)
Resolvable(h, c) ==
    IF c = NULL_TREE THEN FALSE
    ELSE IF h[c].code = "FUNCTION_DECL" THEN TRUE
    ELSE IF h[c].code \in {"ADDR_EXPR", "NOP_EXPR", "CONVERT_EXPR"}
         THEN Resolvable(h, h[c].ops[1])
         ELSE FALSE

RECURSIVE CalleeDecl(_, _)
CalleeDecl(h, c) == IF h[c].code = "FUNCTION_DECL" THEN c ELSE CalleeDecl(h, h[c].ops[1])

IsCall(h, n) == h[n].code = "CALL_EXPR"

\* The declared parameters: the list up to its end marker.
DeclaredParams(ps) ==
    LET ends == {i \in 1..Len(ps) : ps[i] = void_type_node}
    IN  IF ends = {} THEN ps
        ELSE SubSeq(ps, 1, (CHOOSE i \in ends : \A j \in ends : i <= j) - 1)

Min(a, b) == IF a <= b THEN a ELSE b

\* The type a wrapped expression starts from.
OriginOf(h, e) ==
    LET inner == InnermostOf(h, e)
    IN  IF inner = NULL_TREE THEN h[e].type ELSE h[inner].type

(***************************************************************************)
(* C1.  The conversion check warns exactly when both types are numeric,    *)
(* the source is 64 bits wide and the destination 32 bits wide, whatever   *)
(* the two kinds; it warns once.                                           *)
(***************************************************************************)
C1_ClassifierTable ==
    Returned =>
        /\ Len(diags) <= 1
        /\ (Len(diags) = 1) <=> ExpectLossy(original_type, data.function_return_type)

C1_Witness ==
    /\ Returned
    /\ Len(ast) = 1
    /\ original_type = I64
    /\ data.function_return_type = [F32 EXCEPT !.quals = "const"]
    /\ Len(diags) = 1

(***************************************************************************)
(* C5.  Under one or more wrappers get_original_type returns the type of   *)
(* the innermost node that is no wrapper, the same as under the last       *)
(* wrapper alone; when the last wrapper has no operand it returns the type *)
(* of the expression it was given.                                         *)
(***************************************************************************)
C5_PeelsAllWrappers ==
    (Returned /\ IsWrapper(ast, 1)) =>
        LET n == LeadingWrappers(ast, 1)
            inner == InnermostOf(ast, 1)
        IN  IF inner # NULL_TREE
            THEN /\ original_type = ast[inner].type
                 /\ original_type = get_original_type(ast, n)
            ELSE original_type = ast[1].type

C5_Witness ==
    /\ Returned
    /\ LeadingWrappers(ast, 1) = 3
    /\ ast[1].type = I32
    /\ ast[2].type = I64
    /\ ast[3].type = I32
    /\ InnermostOf(ast, 1) = 4
    /\ ast[4].type = F64
    /\ original_type = F64

(***************************************************************************)
(* C9.  Whether the check warns is decided by the type of the innermost    *)
(* node under the wrappers of the source and by the destination type: a    *)
(* 64-bit value under wrappers, checked against a 32-bit destination,      *)
(* warns; a 32-bit value widened and narrowed again does not.              *)
(***************************************************************************)
SourceOf(h) == IF h[1].code = "INIT_EXPR" THEN h[1].ops[2] ELSE 1

C9_OriginDecides ==
    (Returned /\ InnermostOf(ast, SourceOf(ast)) # NULL_TREE) =>
        LET origin == ast[InnermostOf(ast, SourceOf(ast))].type
            to == data.function_return_type
        IN  /\ (diags # <<>>) <=> Classify(origin, to)
            /\ (NumericKind(origin) /\ origin.prec = 64 /\ to \in {I32, F32})
                   => Len(diags) = 1
            /\ origin.prec # 64 => diags = <<>>

C9_Witness ==
    /\ Returned
    /\ LeadingWrappers(ast, 1) = 2
    /\ ast[1].type = I32
    /\ ast[2].type = I64
    /\ InnermostOf(ast, 1) = 3
    /\ ast[3].type = I32
    /\ data.function_return_type = I32
    /\ diags = <<>>

(***************************************************************************)
(* C4.  A visit of a call with a resolved callee and its arguments present *)
(* checks argument i against parameter i for the indices below the smaller *)
(* of the number of declared parameters and the number of arguments, in    *)
(* order, and warns once for each lossy pair.                              *)
(***************************************************************************)
ExpectedArgDiags(h, n, v) ==
    LET ps == DeclaredParams(h[CalleeDecl(h, h[n].ops[1])].parms)
        as == Tail(h[n].ops)
        lossy == {i \in 1..Min(Len(ps), Len(as)) : ExpectLossy(OriginOf(h, as[i]), ps[i])}
        ix == SelectSeq([i \in 1..Min(Len(ps), Len(as)) |-> i], LAMBDA i : i \in lossy)
    IN  [j \in 1..Len(ix) |->
            [at |-> n, from |-> OriginOf(h, as[ix[j]]), to |-> ps[ix[j]],
             context |-> "function argument", arg |-> ix[j] - 1, visit |-> v]]

ArgsPresent(h, n) == \A i \in 2..Len(h[n].ops) : h[n].ops[i] # NULL_TREE

C6_UnresolvedCalleeSilent ==
    \A i \in 1..Len(diags) :
        IsCall(ast, diags[i].at) => Resolvable(ast, ast[diags[i].at].ops[1])

C6_Witness ==
    /\ Returned
    /\ \E v \in 1..Len(visited) :
           LET n == visited[v]
           IN  /\ IsCall(ast, n)
               /\ ast[n].ops[1] # NULL_TREE
               /\ ast[ast[n].ops[1]].code = "INDIRECT_REF"
               /\ Len(ast[n].ops) = 3
               /\ ast[ast[n].ops[2]].type = I64
               /\ DiagsOfVisit(v) = <<>>

(***************************************************************************)
(* C8.  Nodes are visited, and so diagnostics emitted, in depth-first      *)
(* pre-order: a node before its subtree, the subtree of an earlier child   *)
(* before that of a later one, the argument checks of a call in argument   *)
(* order.                                                                  *)
(***************************************************************************)
C8_PreOrderEmission ==
    /\ IsSubseq(visited, Body)
    /\ \A i \in 1..Len(diags) : visited[diags[i].visit] = diags[i].at
    /\ \A i, j \in 1..Len(diags) :
           i < j => \/ diags[i].visit < diags[j].visit
                    \/ diags[i].visit = diags[j].visit /\ diags[i].arg < diags[j].arg

C8_Witness ==
    /\ Returned
    /\ Len(diags) = 5
    /\ \E n \in 1..Len(ast) :
           /\ ast[n].code = "FOR_STMT"
           /\ \A k \in 1..4 : diags[k].at = ast[n].ops[k]
           /\ diags[5].at > ast[n].ops[4]

(***************************************************************************)
(* C2.  A body with a single checkpoint site, which the walk reaches,      *)
(* gives one diagnostic, with the label of the site, when the site         *)
(* converts 64 bits to 32 bits, and none when it widens or keeps the       *)
(* width.                                                                  *)
(***************************************************************************)
CallPairs(h, n) ==
    IF Resolvable(h, h[n].ops[1]) /\ ArgsPresent(h, n)
    THEN 1..Min(Len(DeclaredParams(h[CalleeDecl(h, h[n].ops[1])].parms)), Len(h[n].ops) - 1)
    ELSE {}

\* The sites of a tree: <<node, argument>>, the argument 0 but for a call.
Sites(h) ==
    {<<n, 0>> : n \in {m \in 1..Len(h) :
                        \/ h[m].code = "VAR_DECL" /\ h[m].ops[1] # NULL_TREE
                        \/ h[m].code = "MODIFY_EXPR"
                        \/ h[m].code = "RETURN_EXPR" /\ h[m].ops[1] # NULL_TREE}}
        \cup UNION {{<<n, k>> : k \in CallPairs(h, n)} : n \in {m \in 1..Len(h) : IsCall(h, m)}}

SiteLabel(h, s) ==
    CASE h[s[1]].code = "VAR_DECL" -> "variable initialization"
      [] h[s[1]].code = "MODIFY_EXPR" -> "assignment"
      [] h[s[1]].code = "CALL_EXPR" -> "function argument"
      [] OTHER -> "return value"

SiteSource(h, s) ==
    CASE h[s[1]].code = "VAR_DECL" -> h[s[1]].ops[1]
      [] h[s[1]].code = "MODIFY_EXPR" -> h[s[1]].ops[2]
      [] h[s[1]].code = "CALL_EXPR" -> h[s[1]].ops[s[2] + 1]
      [] OTHER -> h[s[1]].ops[1]

SiteTo(h, s) ==
    CASE h[s[1]].code = "VAR_DECL" -> h[s[1]].type
      [] h[s[1]].code = "MODIFY_EXPR" ->
           IF h[s[1]].ops[1] = NULL_TREE THEN NullType ELSE h[h[s[1]].ops[1]].type
      [] h[s[1]].code = "CALL_EXPR" ->
           DeclaredParams(h[CalleeDecl(h, h[s[1]].ops[1])].parms)[s[2]]
      [] OTHER -> data.function_return_type

SiteFrom(h, s) ==
    IF SiteSource(h, s) = NULL_TREE THEN NullType ELSE OriginOf(h, SiteSource(h, s))

C2_OneDiagnosticPerSite ==
    (Returned /\ Cardinality(Sites(ast)) = 1
        /\ \A s \in Sites(ast) : Visits(s[1]) >= 1) =>
        LET s == CHOOSE s \in Sites(ast) : TRUE
            f == SiteFrom(ast, s)
            t == SiteTo(ast, s)
        IN  /\ (NumericKind(f) /\ NumericKind(t) /\ f.prec = 64 /\ t.prec = 32)
                  => /\ Len(diags) = 1
                     /\ diags[1].context = SiteLabel(ast, s)
            /\ (NumericKind(f) /\ NumericKind(t) /\ f.prec <= t.prec)
                  => diags = <<>>

(***************************************************************************)
(* C3.  When the walk has returned, every node reachable from the body     *)
(* has been visited exactly once.                                          *)
(***************************************************************************)
C3_EveryNodeOnce ==
    Returned => \A n \in Reachable : Visits(n) = 1

(***************************************************************************)
(* C7.  The walk never faults, and no diagnostic carries a null or error   *)
(* type.                                                                   *)
(***************************************************************************)
C7_NoFault ==
    /\ pc # "fault"
    /\ \A i \in 1..Len(diags) :
           /\ diags[i].from \notin {NullType, error_mark_node}
           /\ diags[i].to \notin {NullType, error_mark_node}

(***************************************************************************)
(* C10.  Every walk eventually returns.                                    *)
(***************************************************************************)
C10_EventuallyReturns == <>Returned

====
